---- MODULE Spec2Model ----
(***************************************************************************)
(* text-reader: a character cursor (TextReader) with forward read, backward*)
(* undo and line/column tracking, and the speculative Detector built on it.*)
(* The reader is modelled field by field; every method is an operator on a *)
(* reader record, computed as the Rust code computes it, and every public  *)
(* call is one action.                                                     *)
(***************************************************************************)
EXTENDS Integers, Sequences, FiniteSets, TLC

\* ------------------------------------------------------------------ bounds
MaxLen == 4      \* longest input buffer explored
MaxPat == 2      \* longest expected sequence a detector accumulates

\* ------------------------------------------------------------- characters
NL == "\n"
Chars == {"a", "b", NL}

\* Option<T>: None is the empty sequence, Some(x) the one-element sequence.
None == <<>>
Some(x) == <<x>>

RECURSIVE SeqsUpTo(_)
SeqsUpTo(n) ==
  IF n = 0 THEN {<<>>}
  ELSE LET shorter == SeqsUpTo(n - 1)
       IN shorter \cup {Append(s, c) : s \in {t \in shorter : Len(t) = n - 1}, c \in Chars}

VARIABLES
  text,      \* TextReader.text: the buffer, fixed at construction
  position,  \* TextReader.position
  line,      \* TextReader.line
  cursor,    \* TextReader.cursor (isize)
  bound,     \* a Detector holds the &mut borrow of the reader
  compares,  \* Detector.compares
  last_len,  \* Detector.last_len
  last,      \* the last call: [op, pre (reader before it), ret]
  prior,     \* reader state before the call preceding `last`, when that call
             \* was a successful next() or a yes() returning true; else NoPrior
  scan       \* [on, out]: on while every call since construction/reset was a
             \* next() made with has_next() true; out = the characters returned

vars == <<text, position, line, cursor, bound, compares, last_len, last, prior, scan>>

\* ----------------------------------------------------------- TextReader
len == Len(text)

Reader == [position |-> position, line |-> line, cursor |-> cursor]

new == [position |-> 0, line |-> 1, cursor |-> 0]

\* has_next() answering false one character early
has_nextOffByOne(r) == r.position < len - 1

has_next(r) == r.position < len

peek(r) ==
  IF r.position = 0 THEN None
  ELSE IF r.position - 1 >= len THEN None
  ELSE Some(text[r.position])          \* text.get(position - 1), 1-based here

\* cursor(): `self.cursor as usize`. A negative isize comes out as
\* 2^64 + cursor, which is beyond TLC's integers: it is kept as the offset
\* from 2^64 with wrapped = TRUE.
cursor_(r) ==
  IF r.cursor >= 0 THEN [value |-> r.cursor, wrapped |-> FALSE]
  ELSE [value |-> r.cursor, wrapped |-> TRUE]

reset(r) == [r EXCEPT !.line = 1, !.position = 0, !.cursor = 0]

\* next() that still advances position when the input is exhausted
nextAtEndMoves(r) ==
  IF ~has_next(r) THEN [r |-> [r EXCEPT !.position = @ + 1], ret |-> None]
  ELSE LET ch == text[r.position + 1]
           moved == [r EXCEPT !.position = @ + 1, !.cursor = @ + 1]
       IN [r   |-> IF ch = NL THEN [moved EXCEPT !.line = @ + 1, !.cursor = 0] ELSE moved,
           ret |-> Some(ch)]

\* next() returning the character before the one it consumes
nextStale(r) ==
  IF ~has_next(r) THEN [r |-> r, ret |-> None]
  ELSE LET ch == text[IF r.position = 0 THEN 1 ELSE r.position]
           moved == [r EXCEPT !.position = @ + 1, !.cursor = @ + 1]
       IN [r   |-> IF ch = NL THEN [moved EXCEPT !.line = @ + 1, !.cursor = 0] ELSE moved,
           ret |-> Some(ch)]

\* next() that does not reset cursor after a newline
nextKeepsColumn(r) ==
  IF ~has_next(r) THEN [r |-> r, ret |-> None]
  ELSE LET ch == text[r.position + 1]
           moved == [r EXCEPT !.position = @ + 1, !.cursor = @ + 1]
       IN [r   |-> IF ch = NL THEN [moved EXCEPT !.line = @ + 1] ELSE moved,
           ret |-> Some(ch)]

\* next(): [r |-> reader after the call, ret |-> Option<char>]
next(r) ==
  IF ~has_next(r) THEN [r |-> r, ret |-> None]
  ELSE LET ch == text[r.position + 1]
           moved == [r EXCEPT !.position = @ + 1, !.cursor = @ + 1]
       IN [r   |-> IF ch = NL THEN [moved EXCEPT !.line = @ + 1, !.cursor = 0] ELSE moved,
           ret |-> Some(ch)]

RECURSIVE back(_), backScan(_, _)

\* back() that decrements cursor before it looks at position
backCursorFirst(r) ==
  IF r.position = 0 THEN [r EXCEPT !.cursor = @ - 1]
  ELSE IF peek(r) = None THEN r
  ELSE IF peek(r) # Some(NL) THEN [r EXCEPT !.position = @ - 1, !.cursor = @ - 1]
  ELSE LET undone == [r EXCEPT !.position = @ - 1, !.line = @ - 1]
       IN [undone EXCEPT !.cursor = backScan(undone, 0) + 1]

\* back() that leaves position where the rescan loop ended
backNoRestore(r) ==
  IF r.position = 0 THEN r
  ELSE IF peek(r) = None THEN r
  ELSE IF peek(r) # Some(NL) THEN [r EXCEPT !.position = @ - 1, !.cursor = @ - 1]
  ELSE LET undone == [r EXCEPT !.position = @ - 1, !.line = @ - 1]
           distance == backScan(undone, 0)
           walked == IF undone.position > distance THEN undone.position - distance - 1 ELSE 0
       IN [undone EXCEPT !.position = walked, !.cursor = distance + 1]

\* back() that does not decrement line when it undoes a newline
backKeepsLine(r) ==
  IF r.position = 0 THEN r
  ELSE IF peek(r) = None THEN r
  ELSE IF peek(r) # Some(NL) THEN [r EXCEPT !.position = @ - 1, !.cursor = @ - 1]
  ELSE LET undone == [r EXCEPT !.position = @ - 1]
       IN [undone EXCEPT !.cursor = backScan(undone, 0) + 1]

\* back() that sets cursor = distance - 1 after the rescan
backDistanceOff(r) ==
  IF r.position = 0 THEN r
  ELSE IF peek(r) = None THEN r
  ELSE IF peek(r) # Some(NL) THEN [r EXCEPT !.position = @ - 1, !.cursor = @ - 1]
  ELSE LET undone == [r EXCEPT !.position = @ - 1, !.line = @ - 1]
       IN [undone EXCEPT !.cursor = backScan(undone, 0) - 1]

back(r) ==
  IF r.position = 0 THEN r
  ELSE IF peek(r) = None THEN r
  ELSE IF peek(r) # Some(NL) THEN [r EXCEPT !.position = @ - 1, !.cursor = @ - 1]
  ELSE LET undone == [r EXCEPT !.position = @ - 1, !.line = @ - 1]
       IN \* position and line are saved and restored around the rescan loop;
          \* only cursor = distance + 1 survives it
          [undone EXCEPT !.cursor = backScan(undone, 0) + 1]

\* the `loop { match self.back().peek() ... }` of back(): the final distance
backScan(r, distance) ==
  LET b == back(r)
  IN IF peek(b) = Some(NL) \/ peek(b) = None THEN distance
     ELSE backScan(b, distance + 1)

\* this_line(): first loop, walking back to the start of the line
RECURSIVE thisLineStart(_)
thisLineStart(r) ==
  IF r.position = 0 \/ r.cursor = 0 THEN r
  ELSE LET b == back(r)
       IN IF peek(b) = Some(NL) THEN b ELSE thisLineStart(b)

\* this_line(): second loop, walking forward to the end of the line
RECURSIVE thisLineEnd(_)
thisLineEnd(r) ==
  IF ~has_next(r) THEN r
  ELSE LET n == next(r)
       IN IF n.ret = Some(NL) THEN back(n.r) ELSE thisLineEnd(n.r)

\* this_line(): [r |-> reader after the call, ret |-> Option<String>]
this_line(r) ==
  LET start == thisLineStart(r)
      end   == thisLineEnd(start)
  IN IF start.position = end.position
     THEN [r |-> end, ret |-> None]     \* returns before the saved state is restored
     ELSE [r |-> r, ret |-> Some(SubSeq(text, start.position + 1, end.position))]

\* n calls of next()
RECURSIVE nextN(_, _)
nextN(r, n) == IF n = 0 THEN r ELSE nextN(next(r).r, n - 1)

\* the characters returned by n calls of next()
RECURSIVE readN(_, _)
readN(r, n) ==
  IF n = 0 THEN <<>>
  ELSE LET c == next(r) IN c.ret \o readN(c.r, n - 1)

\* -------------------------------------------------------------- Detector
\* A detector is [compares, last_len] plus the reader it borrows.
Detector_new == [compares |-> <<>>, last_len |-> 0]

next_char(cmp, ch) == Append(cmp, ch)

\* next_text(): next_char for each character of the text, in order
RECURSIVE next_text(_, _)
next_text(cmp, s) ==
  IF s = <<>> THEN cmp ELSE next_text(next_char(cmp, Head(s)), Tail(s))

\* n calls of back()
RECURSIVE backN(_, _)
backN(r, n) == IF n = 0 THEN r ELSE backN(back(r), n - 1)

restore(r, count) == IF count = 0 THEN r ELSE backN(r, count)

\* rollback() undoing one character too few
rollbackShort(r, ll) == IF ll = 0 THEN r ELSE backN(r, ll - 1)

rollback(r, ll) == backN(r, ll)

\* the while loop of detect() from index ix on, and what follows it:
\* [r |-> reader after, ret |-> the bool returned, last_len |-> last_len after]
RECURSIVE detectFrom(_, _, _, _)

\* detect() that refuses a match ending exactly at the end of the input
detectNeedsLookahead(r, ix, cmp, ll) ==
  IF ~has_next(r)
  THEN [r |-> restore(r, ix), ret |-> FALSE, last_len |-> ll]
  ELSE LET n == next(r)
       IN IF n.ret = None
          THEN [r |-> restore(n.r, ix), ret |-> FALSE, last_len |-> ll]
          ELSE IF ix >= Len(cmp)
          THEN [r |-> back(n.r), ret |-> TRUE, last_len |-> Len(cmp)]
          ELSE IF n.ret[1] # cmp[ix + 1]
          THEN [r |-> restore(n.r, ix + 1), ret |-> FALSE, last_len |-> ll]
          ELSE detectFrom(n.r, ix + 1, cmp, ll)

detectFrom(r, ix, cmp, ll) ==
  IF ~has_next(r)
  THEN IF ix # Len(cmp)
       THEN [r |-> restore(r, ix), ret |-> FALSE, last_len |-> ll]
       ELSE [r |-> r, ret |-> TRUE, last_len |-> Len(cmp)]
  ELSE LET n == next(r)
       IN IF n.ret = None
          THEN [r |-> restore(n.r, ix), ret |-> FALSE, last_len |-> ll]
          ELSE IF ix >= Len(cmp)          \* compares.get(ix) is None
          THEN [r |-> back(n.r), ret |-> TRUE, last_len |-> Len(cmp)]
          ELSE IF n.ret[1] # cmp[ix + 1]
          THEN [r |-> restore(n.r, ix + 1), ret |-> FALSE, last_len |-> ll]
          ELSE detectFrom(n.r, ix + 1, cmp, ll)

detect(r, cmp, ll) == detectFrom(r, 0, cmp, ll)

yes(r, cmp, ll) == detect(r, cmp, ll)

\* no() that does not record the matched length
noKeepsLastLen(r, cmp, ll) == [detect(r, cmp, ll) EXCEPT !.ret = ~@, !.last_len = ll]

no(r, cmp, ll) == [detect(r, cmp, ll) EXCEPT !.ret = ~@]

\* ------------------------------------------------ step-counted execution
\* The same methods, run with a budget of steps (one per call of next() or
\* back() and per loop iteration) and with the unsigned subtractions
\* checked: fault is "none" when the call returned, "underflow" when
\* `self.line -= 1` or `self.position -= 1` met 0 (a panic in a debug build,
\* a wrap-around in a release build), "fuel" when the budget ran out first.
StepBound == 60

Ran(r, f) == [r |-> r, fuel |-> f, fault |-> "none"]
Stopped(r, f, why) == [r |-> r, fuel |-> f, fault |-> why]

RECURSIVE backT(_, _), backScanT(_, _, _)

backT(r, f) ==
  IF f = 0 THEN Stopped(r, 0, "fuel")
  ELSE IF r.position = 0 THEN Ran(r, f - 1)
  ELSE IF peek(r) = None THEN Ran(r, f - 1)
  ELSE IF peek(r) # Some(NL)
  THEN IF r.position < 1 THEN Stopped(r, f - 1, "underflow")
       ELSE Ran([r EXCEPT !.position = @ - 1, !.cursor = @ - 1], f - 1)
  ELSE IF r.position < 1 \/ r.line < 1 THEN Stopped(r, f - 1, "underflow")
  ELSE LET undone == [r EXCEPT !.position = @ - 1, !.line = @ - 1]
           scanned == backScanT(undone, 0, f - 1)
       IN [r     |-> [undone EXCEPT !.cursor = scanned.distance + 1],
           fuel  |-> scanned.fuel,
           fault |-> scanned.fault]

\* the rescan loop of back() that breaks on Some('\n') only
backScanTNoNone(r, distance, f) ==
  LET b == backT(r, f)
  IN IF b.fault # "none" THEN [distance |-> distance, fuel |-> b.fuel, fault |-> b.fault]
     ELSE IF peek(b.r) = Some(NL)
     THEN [distance |-> distance, fuel |-> b.fuel, fault |-> "none"]
     ELSE backScanT(b.r, distance + 1, b.fuel)

backScanT(r, distance, f) ==
  LET b == backT(r, f)
  IN IF b.fault # "none" THEN [distance |-> distance, fuel |-> b.fuel, fault |-> b.fault]
     ELSE IF peek(b.r) = Some(NL) \/ peek(b.r) = None
     THEN [distance |-> distance, fuel |-> b.fuel, fault |-> "none"]
     ELSE backScanT(b.r, distance + 1, b.fuel)

\* next() cannot fault: the unwrap() of text.get(position) is guarded by has_next()
nextT(r, f) ==
  IF f = 0 THEN Stopped(r, 0, "fuel") ELSE Ran(next(r).r, f - 1)

RECURSIVE backNT(_, _, _)
backNT(r, n, f) ==
  IF n = 0 THEN Ran(r, f)
  ELSE LET b == backT(r, f)
       IN IF b.fault # "none" THEN b ELSE backNT(b.r, n - 1, b.fuel)

RECURSIVE thisLineStartT(_, _)
thisLineStartT(r, f) ==
  IF r.position = 0 \/ r.cursor = 0 THEN Ran(r, f)
  ELSE LET b == backT(r, f)
       IN IF b.fault # "none" \/ peek(b.r) = Some(NL) THEN b
          ELSE thisLineStartT(b.r, b.fuel)

RECURSIVE thisLineEndT(_, _)
thisLineEndT(r, f) ==
  IF ~has_next(r) THEN Ran(r, f)
  ELSE LET n == nextT(r, f)
       IN IF n.fault # "none" THEN n
          ELSE IF next(r).ret = Some(NL) THEN backT(n.r, n.fuel)
          ELSE thisLineEndT(n.r, n.fuel)

this_lineT(r, f) ==
  LET start == thisLineStartT(r, f)
      end   == IF start.fault # "none" THEN start ELSE thisLineEndT(start.r, start.fuel)
  IN IF end.fault # "none" THEN end
     ELSE IF start.r.position = end.r.position THEN end
     ELSE Ran(r, end.fuel)

RECURSIVE detectT(_, _, _, _)
detectT(r, ix, cmp, f) ==
  IF ~has_next(r)
  THEN IF ix # Len(cmp) THEN backNT(r, ix, f) ELSE Ran(r, f)
  ELSE LET n == nextT(r, f)
       IN IF n.fault # "none" THEN n
          ELSE IF ix >= Len(cmp) THEN backT(n.r, n.fuel)
          ELSE IF next(r).ret[1] # cmp[ix + 1] THEN backNT(n.r, ix + 1, n.fuel)
          ELSE detectT(n.r, ix + 1, cmp, n.fuel)

rollbackT(r, ll, f) == backNT(r, ll, f)

\* ----------------------------------------------------------------- history
NoPrior == [position |-> -1, line |-> -1, cursor |-> 0]
Call(op, ret) == [op |-> op, pre |-> Reader, ret |-> ret]
ScanOff == [on |-> FALSE, out |-> <<>>]

SetReader(r) ==
  /\ position' = r.position
  /\ line' = r.line
  /\ cursor' = r.cursor

\* ------------------------------------------------------------------- Init
Init ==
  /\ text \in SeqsUpTo(MaxLen)
  /\ position = 0
  /\ line = 1
  /\ cursor = 0
  /\ bound = FALSE
  /\ compares = <<>>
  /\ last_len = 0
  /\ last = [op |-> "new", pre |-> new, ret |-> None]
  /\ prior = NoPrior
  /\ scan = [on |-> TRUE, out |-> <<>>]

\* --------------------------------------------------- actions on the reader
Next_ ==
  /\ ~bound
  /\ LET c == next(Reader)
     IN /\ SetReader(c.r)
        /\ last' = Call("next", c.ret)
        /\ prior' = IF c.ret # None THEN Reader ELSE NoPrior
        /\ scan' = IF scan.on /\ has_next(Reader)
                   THEN [on |-> TRUE, out |-> scan.out \o c.ret]
                   ELSE ScanOff
  /\ UNCHANGED <<text, bound, compares, last_len>>

Back ==
  /\ ~bound
  /\ SetReader(back(Reader))
  /\ last' = Call("back", None)
  /\ prior' = IF last.op = "next" /\ last.ret # None THEN last.pre ELSE NoPrior
  /\ scan' = ScanOff
  /\ UNCHANGED <<text, bound, compares, last_len>>

Reset ==
  /\ ~bound
  /\ SetReader(reset(Reader))
  /\ last' = Call("reset", None)
  /\ prior' = NoPrior
  /\ scan' = [on |-> TRUE, out |-> <<>>]
  /\ UNCHANGED <<text, bound, compares, last_len>>

Peek ==
  /\ ~bound
  /\ last' = Call("peek", peek(Reader))
  /\ prior' = NoPrior
  /\ scan' = ScanOff
  /\ UNCHANGED <<text, position, line, cursor, bound, compares, last_len>>

HasNext ==
  /\ ~bound
  /\ last' = Call("has_next", has_next(Reader))
  /\ prior' = NoPrior
  /\ UNCHANGED <<text, position, line, cursor, bound, compares, last_len, scan>>

ThisLine ==
  /\ ~bound
  /\ LET c == this_line(Reader)
     IN /\ SetReader(c.r)
        /\ last' = Call("this_line", c.ret)
  /\ prior' = NoPrior
  /\ scan' = ScanOff
  /\ UNCHANGED <<text, bound, compares, last_len>>


\* ------------------------------------------------- actions on a detector
\* a detector made while another one still holds the reader
NewDetectorShared ==
  /\ bound' = TRUE
  /\ compares' = Detector_new.compares
  /\ last_len' = Detector_new.last_len
  /\ last' = Call("detector", None)
  /\ prior' = NoPrior
  /\ scan' = ScanOff
  /\ UNCHANGED <<text, position, line, cursor>>

NewDetector ==
  /\ ~bound
  /\ bound' = TRUE
  /\ compares' = Detector_new.compares
  /\ last_len' = Detector_new.last_len
  /\ last' = Call("detector", None)
  /\ prior' = NoPrior
  /\ scan' = ScanOff
  /\ UNCHANGED <<text, position, line, cursor>>

NextChar ==
  /\ bound
  /\ Len(compares) < MaxPat
  /\ \E ch \in Chars : compares' = next_char(compares, ch)
  /\ last' = Call("next_char", None)
  /\ prior' = NoPrior
  /\ UNCHANGED <<text, position, line, cursor, bound, last_len, scan>>

NextText ==
  /\ bound
  /\ \E s \in SeqsUpTo(MaxPat) :
       /\ Len(compares) + Len(s) <= MaxPat
       /\ compares' = next_text(compares, s)
  /\ last' = Call("next_text", None)
  /\ prior' = NoPrior
  /\ UNCHANGED <<text, position, line, cursor, bound, last_len, scan>>

Yes ==
  /\ bound
  /\ LET d == yes(Reader, compares, last_len)
     IN /\ SetReader(d.r)
        /\ last_len' = d.last_len
        /\ last' = Call("yes", d.ret)
  /\ prior' = NoPrior
  /\ UNCHANGED <<text, bound, compares, scan>>

No ==
  /\ bound
  /\ LET d == no(Reader, compares, last_len)
     IN /\ SetReader(d.r)
        /\ last_len' = d.last_len
        /\ last' = Call("no", d.ret)
  /\ prior' = NoPrior
  /\ UNCHANGED <<text, bound, compares, scan>>

Rollback ==
  /\ bound
  /\ SetReader(rollback(Reader, last_len))
  /\ last' = Call("rollback", None)
  /\ prior' = IF last.op = "yes" /\ last.ret = TRUE THEN last.pre ELSE NoPrior
  /\ UNCHANGED <<text, bound, compares, last_len, scan>>

\* the detector goes out of scope and the borrow of the reader ends
DropDetector ==
  /\ bound
  /\ bound' = FALSE
  /\ compares' = <<>>
  /\ last_len' = 0
  /\ last' = Call("drop", None)
  /\ prior' = NoPrior
  /\ UNCHANGED <<text, position, line, cursor, scan>>

Next ==
  \/ Next_
  \/ Back
  \/ Reset
  \/ Peek
  \/ HasNext
  \/ ThisLine
  \/ NewDetector
  \/ NextChar
  \/ NextText
  \/ Yes
  \/ No
  \/ Rollback
  \/ DropDetector

Spec == Init /\ [][Next]_vars

\* ================================================================ claims
\* Helpers of the claims' statements.
Pre == last.pre
PatLen == Len(compares)

\* the reader state that p forward reads from the initial state produce
Forward(p) == nextN(new, p)

RECURSIVE Newlines(_)
Newlines(s) == IF s = <<>> THEN 0 ELSE (IF Head(s) = NL THEN 1 ELSE 0) + Newlines(Tail(s))

\* characters of text[0 .. p) after the last newline of that prefix
RECURSIVE ColumnAt(_)
ColumnAt(p) == IF p = 0 \/ text[p] = NL THEN 0 ELSE 1 + ColumnAt(p - 1)

DetectFailed ==
  \/ last.op = "yes" /\ last.ret = FALSE
  \/ last.op = "no" /\ last.ret = TRUE

\* C1: from a state reached by forward reads in which has_next() holds,
\* next() followed at once by back() leaves (position, line, cursor) as they
\* were before the next(), also when the character undone is a newline.
C1_NextBackRestores ==
  (last.op = "back" /\ prior # NoPrior /\ prior = Forward(prior.position))
    => Reader = prior

\* C2: when yes() or no() decides the input does not match, the reader's
\* (position, line, cursor) equal their values before the call.
C2_FailureRestores == DetectFailed => Reader = Pre

\* C3: yes() at position p with an expected sequence of length L returns
\* true exactly when p + L <= len and text[p .. p+L) equals the sequence.
C3_YesIffMatch ==
  last.op = "yes" =>
    (last.ret <=> /\ Pre.position + PatLen <= len
                  /\ SubSeq(text, Pre.position + 1, Pre.position + PatLen) = compares)

\* yes() accepted a non-empty pattern that is exactly the remaining tail
C3_Witness ==
  /\ last.op = "yes" /\ last.ret = TRUE
  /\ PatLen > 0 /\ Pre.position > 0
  /\ Pre.position + PatLen = len

\* C4: after yes() returns true the reader is exactly L characters past the
\* start state: the state L calls of next() produce from it.
C4_YesAdvancesExactly ==
  (last.op = "yes" /\ last.ret = TRUE) => Reader = nextN(Pre, PatLen)

\* C5: this_line() leaves position, line and cursor as they were.
C5_ThisLineFrame == last.op = "this_line" => Reader = Pre

\* C6: yes() returning true followed at once by rollback() puts the reader
\* back at the position yes() started from, and the next L reads return the
\* matched characters text[p .. p+L) in order.
C6_RollbackRereads ==
  (last.op = "rollback" /\ prior # NoPrior) =>
    /\ position = prior.position
    /\ readN(Reader, PatLen) = SubSeq(text, prior.position + 1, prior.position + PatLen)
    /\ readN(Reader, PatLen) = compares

\* rollback() ran right after a successful match of a full-length pattern
\* that crosses a newline
C6_Witness ==
  /\ last.op = "rollback" /\ prior # NoPrior
  /\ PatLen = MaxPat /\ NL \in {compares[i] : i \in 1..PatLen}
  /\ Pre.position = prior.position + PatLen

\* C7: in every reachable state (position, line, cursor) is the state that
\* forward reads alone produce: line = 1 + newlines in text[0 .. position),
\* cursor = characters of that prefix after its last newline.
C7_ForwardReachable ==
  /\ Reader = Forward(position)
  /\ line = 1 + Newlines(SubSeq(text, 1, position))
  /\ cursor = ColumnAt(position)

\* C8: scanning from the initial state with next() while has_next() returns
\* text[0], text[1], ... in order, one per read, and ends with has_next()
\* false and position = len after exactly len reads.
C8_ScanReadsAll ==
  scan.on =>
    /\ position <= len
    /\ Len(scan.out) = position
    /\ scan.out = SubSeq(text, 1, position)
    /\ ~has_next(Reader) => (position = len /\ scan.out = text)

\* a scan of a buffer of several different characters ran to exhaustion
C8_Witness ==
  /\ scan.on /\ last.op = "next"
  /\ ~has_next(Reader)
  /\ len >= 3 /\ Cardinality({text[i] : i \in 1..len}) = 3

\* C9: next() with has_next() false returns None and changes nothing.
C9_NextAtEnd ==
  (last.op = "next" /\ ~has_next(Pre)) => (last.ret = None /\ Reader = Pre)

\* next() was called on an exhausted, non-empty buffer
C9_Witness == last.op = "next" /\ ~has_next(Pre) /\ len > 0 /\ position = len

\* C10: back() at position 0 changes nothing, in any state with position 0.
C10_BackAtZero ==
  (last.op = "back" /\ Pre.position = 0) => Reader = Pre

\* back() was called at position 0 in a state other than the initial one
C10_Witness == last.op = "back" /\ Pre.position = 0 /\ Pre # new

\* index just after the nearest newline in text[0 .. p), 0 if there is none
RECURSIVE LineStart(_)
LineStart(p) == IF p = 0 \/ text[p] = NL THEN p ELSE LineStart(p - 1)

\* index of the first newline at or after p, len if there is none
RECURSIVE LineEnd(_)
LineEnd(p) == IF p >= len \/ text[p + 1] = NL THEN p ELSE LineEnd(p + 1)

\* C11: this_line() returns the text of the line containing the current
\* position, text[lineStart .. lineEnd), and None when that span is empty.
C11_ThisLineText ==
  last.op = "this_line" =>
    LET s == LineStart(Pre.position)
        e == LineEnd(Pre.position)
    IN last.ret = IF s < e THEN Some(SubSeq(text, s + 1, e)) ELSE None

C15_BackEffect ==
  /\ (last.op = "back" /\ Pre.position > 0) =>
       /\ position = Pre.position - 1
       /\ line = Pre.line - (IF text[Pre.position] = NL THEN 1 ELSE 0)
  /\ position > 0 =>
       /\ back(Reader).position = position - 1
       /\ back(Reader).line = line - (IF text[position] = NL THEN 1 ELSE 0)

\* back() undid a newline whose rescan crossed an earlier newline
C15_Witness ==
  /\ last.op = "back" /\ Pre.position >= 2
  /\ text[Pre.position] = NL /\ text[Pre.position - 1] = NL

\* C16: line >= 1 and line = 1 + the number of newlines in text[0 .. position)
C16_LineCount ==
  /\ line >= 1
  /\ line = 1 + Newlines(SubSeq(text, 1, position))

\* the line counter came back to 1 by undoing a newline
C16_Witness ==
  /\ last.op \in {"back", "rollback", "yes", "no"}
  /\ Pre.line > 1 /\ line = 1

\* C17: after every public call the signed cursor is >= 0
\* and cursor() reports it unwrapped
C17_CursorNonNegative ==
  /\ cursor >= 0
  /\ cursor_(Reader) = [value |-> cursor, wrapped |-> FALSE]

\* this_line() returned None without restoring the saved state
C17_Witness ==
  /\ last.op = "this_line" /\ last.ret = None
  /\ Reader # Pre

\* C18: 0 <= position <= len in every reachable state, has_next() answers
\* true exactly when position < len, and no step changes the buffer.
C18_PositionInBounds ==
  /\ [](/\ 0 <= position
        /\ position <= len
        /\ last.op = "has_next" => (last.ret <=> position < len))
  /\ [][text' = text]_vars

\* has_next() answered false at the end of a non-empty buffer
C18_Witness ==
  /\ last.op = "has_next" /\ last.ret = FALSE
  /\ position = len /\ len > 0

Min(a, b) == IF a <= b THEN a ELSE b

DetectMatched ==
  \/ last.op = "yes" /\ last.ret = TRUE
  \/ last.op = "no" /\ last.ret = FALSE

\* C19 as claimed: every rollback() decreases position by exactly last_len.
C19_RollbackExact ==
  last.op = "rollback" => position = Pre.position - last_len

\* C19, amended: rollback() decreases position by last_len, or to 0 when fewer
\* than last_len characters precede it; last_len is 0 on a fresh detector, the
\* pattern length after a successful yes()/no() and unchanged by a failed one
\* and by every other call; with last_len = 0 the reader is unchanged.
C19_RollbackClipped ==
  /\ [](last.op = "rollback" =>
          /\ position = Pre.position - Min(last_len, Pre.position)
          /\ last_len = 0 => Reader = Pre)
  /\ [][/\ last'.op = "detector" => last_len' = 0
        /\ (last'.op \in {"yes", "no"} /\ DetectMatched') => last_len' = Len(compares)
        /\ (last'.op \in {"yes", "no"} /\ DetectFailed') => last_len' = last_len
        /\ last'.op \in {"rollback", "next_char", "next_text"} => last_len' = last_len]_vars

\* a second rollback() ran with fewer than last_len characters before it
C19_Witness ==
  /\ last.op = "rollback"
  /\ Pre.position > 0 /\ Pre.position < last_len
  /\ position = 0

\* C20: no() leaves the reader and last_len exactly as yes() would from the
\* same reader state, expected sequence and last_len, and returns the negation.
C20_NoMirrorsYes ==
  [][last'.op = "no" =>
       LET y == yes(Reader, compares, last_len)
       IN /\ Reader' = y.r
          /\ last_len' = y.last_len
          /\ last'.ret = ~y.ret]_vars

\* no() returned false on a match that moved the reader and set last_len
C20_Witness ==
  /\ last.op = "no" /\ last.ret = FALSE
  /\ PatLen > 0 /\ last_len = PatLen
  /\ position = Pre.position + PatLen

\* C12: from every reachable state next, back, peek, this_line, yes/no and
\* rollback return: each finishes within the step budget, with no unsigned
\* underflow of position or line and no out-of-range index, and with the
\* result the call has.
C12_Total ==
  LET b == backT(Reader, StepBound)
      t == this_lineT(Reader, StepBound)
      d == detectT(Reader, 0, compares, StepBound)
      u == rollbackT(Reader, last_len, StepBound)
      n == nextT(Reader, StepBound)
  IN /\ b.fault = "none" /\ b.r = back(Reader)
     /\ t.fault = "none" /\ t.r = this_line(Reader).r
     /\ d.fault = "none" /\ d.r = detect(Reader, compares, last_len).r
     /\ u.fault = "none" /\ u.r = rollback(Reader, last_len)
     /\ n.fault = "none" /\ n.r = next(Reader).r
     /\ peek(Reader) \in {None} \cup {Some(c) : c \in Chars}

\* back() is about to undo a newline whose rescan goes through nested back()
\* calls over two earlier newlines
C12_Witness ==
  /\ last.op = "next" /\ position >= 3
  /\ \A i \in position - 2 .. position : text[i] = NL
  /\ StepBound - backT(Reader, StepBound).fuel >= 4

\* C13: while a detector is bound to the reader, the only calls are that
\* detector's: no second detector is created and the reader is not read or
\* undone directly until the detector is dropped.
C13_OneDetector ==
  [][bound => last'.op \in {"next_char", "next_text", "yes", "no", "rollback", "drop"}]_vars

\* a bound detector moved the reader
C13_Witness ==
  /\ bound /\ last.op \in {"yes", "no", "rollback"}
  /\ Reader # Pre

====
